---- MODULE Spec2Model ----
(***************************************************************************)
(* The browser client of the research-paper assistant: the root view Home  *)
(* (its state and its API call functions), the sidebar's upload handlers   *)
(* and the chat form, together with the HTTP backend they talk to.         *)
(*                                                                         *)
(* Every async function of Home is modelled as an activation record in     *)
(* `calls`: it is created by the synchronous part of the function, waits   *)
(* at each `await fetch(...)` for the backend to serve the request, and    *)
(* its continuation runs when the response is delivered.  A continuation   *)
(* runs to the next await without interruption (single-threaded event      *)
(* loop), so each one is a single action.  An activation keeps the values  *)
(* of selectedPaper / selectedGroup / mode of the render that created it   *)
(* (the closure), as the code does.                                        *)
(***************************************************************************)
EXTENDS Integers, Sequences, FiniteSets, TLC

\* ------------------------------------------------------------------ bounds

\* Number of calls the user may start after the page has mounted: with the
\* whole page in use, with only the chat form and the upload zone in use, with
\* only the group and paper lists in use, with only the group form in use, with
\* the chat form and every kind of input in use, with only the upload zone in
\* use, with only the focus in use, with the chat form in use and time
\* passing, and with the group form and the paper deletes in use.
MaxCalls == 1
MaxChatCalls == 3
MaxListCalls == 2
MaxFormCalls == 2
MaxInputCalls == 2
MaxUploadCalls == 2
MaxFocusCalls == 2
MaxClockCalls == 2
MaxFormPaperCalls == 2
\* Number of milliseconds that pass while the page is in use.
MaxNow == 3

\* ------------------------------------------------------- program constants

\* null, for an identifier (paper_id, group_id in a request body).
Null == 0
\* null, for a string (uploadProgress, error of the sidebar).
NullStr == "null"
\* `top_k: 5` of the ask-question request.
TopK == 5
\* The two calls of the mount effect: fetchPapers() and fetchGroups().
MountCalls == 2

Modes == {"academic", "simple", "eli5"}
Apology == "Sorry, I encountered an error processing your question. Please try again."
PdfType == "application/pdf"
\* MIME types of the files a user may drop or pick; Undefined is "no file".
FileTypes == {PdfType, "text/plain"}
Undefined == "undefined"

\* selectedPaper = null and selectedGroup = null.
NoPaper == [paper_id |-> Null]
NoGroup == [group_id |-> Null, name |-> "", paper_ids |-> <<>>]

\* What the user types, without surrounding white space.
Questions == {"q"}
Names == {"g"}
Descriptions == {"d"}

\* The content of a text field: `pre` white-space characters, then `body`
\* (which neither starts nor ends with white space), then `post` white-space
\* characters.  A field that holds white space only has an empty body.
Text(pre, body, post) == [pre |-> pre, body |-> body, post |-> post]
\* '' (the initial and the cleared value of a field).
EmptyText == Text(0, "", 0)
\* The texts a user may type around the given words: each word as it is, each
\* word with white space around it, and white space alone.
Typed(words) ==
    {Text(0, w, 0) : w \in words} \cup {Text(1, w, 1) : w \in words} \cup {Text(1, "", 0)}
\* The words typed as they are.
Plain(words) == {Text(0, w, 0) : w \in words}

\* String.prototype.trim(): the text without its leading and trailing white space.
trim(text) == text.body

\* `a || b` on strings: b when a is the empty string.
OrElse(a, b) == IF a = "" THEN b ELSE a

\* --------------------------------------------------------------- helpers

Range(s) == {s[i] : i \in 1..Len(s)}

IsPrefix(s, t) == Len(s) <= Len(t) /\ SubSeq(t, 1, Len(s)) = s

\* The paper_id of each paper of a list, in order.
PaperIdsOf(list) == [i \in 1..Len(list) |-> list[i].paper_id]

\* The sequence s without the elements of the set dropped.
RECURSIVE Without(_, _)
Without(s, dropped) ==
    IF s = <<>> THEN <<>>
    ELSE IF Head(s) \in dropped THEN Without(Tail(s), dropped)
         ELSE <<Head(s)>> \o Without(Tail(s), dropped)

\* All duplicate-free sequences over the elements of sequence s, in s's order.
RECURSIVE SubLists(_)
SubLists(s) ==
    IF s = <<>> THEN {<<>>}
    ELSE LET rest == SubLists(Tail(s))
         IN rest \cup {<<Head(s)>> \o r : r \in rest}

\* ------------------------------------------------------------------ state

VARIABLES
    papers,          \* Home: Paper[]
    selectedPaper,   \* Home: Paper | null
    groups,          \* Home: PaperGroup[]
    selectedGroup,   \* Home: PaperGroup | null
    messages,        \* Home: Message[]
    isLoading,       \* Home: boolean
    mode,            \* Home: 'academic' | 'simple' | 'eli5'
    uploadProgress,  \* PaperSidebar: string | null
    error,           \* PaperSidebar: string | null
    timers,          \* PaperSidebar: pending setTimeout(() => setUploadProgress(null))
    showGroupModal,  \* PaperSidebar: boolean
    input,           \* ChatInterface: the text of the input field
    name,            \* GroupModal: the text of the name field
    description,     \* GroupModal: the text of the description field
    selectedPaperIds,\* GroupModal: string[]
    isSubmitting,    \* GroupModal: boolean
    groupError,      \* GroupModal: `error`, a string
    calls,           \* activations of Home's async functions that have not returned
    ncalls,          \* number of activations created so far (gives each its id)
    limit,           \* number of calls the user may start (fixed by Init)
    serverPapers,    \* backend: the papers it stores
    serverGroups,    \* backend: the groups it stores
    last,            \* the event of the latest step (what was called / returned)
    now              \* the clock: what Date.now() returns, in milliseconds

vars == <<papers, selectedPaper, groups, selectedGroup, messages, isLoading, mode,
          uploadProgress, error, timers, showGroupModal, input, name, description,
          selectedPaperIds, isSubmitting, groupError, calls, ncalls, limit,
          serverPapers, serverGroups, last, now>>

home == <<papers, selectedPaper, groups, selectedGroup, messages, isLoading, mode>>
sidebar == <<uploadProgress, error, timers>>
modal == <<showGroupModal, name, description, selectedPaperIds, isSubmitting, groupError>>
server == <<serverPapers, serverGroups, limit>>

Idle == [kind |-> "idle"]
\* The event of a form submit that the form's handler did not pass on.
Ignored(handler) == [kind |-> "ignored", op |-> handler]

\* ---------------------------------------------------------------- backend

\* What the backend holds when the page is opened.
InitServerPapers == <<[paper_id |-> 1]>>
InitServerGroups == <<[group_id |-> 1, name |-> "g", paper_ids |-> <<1>>]>>

\* Identifier the backend gives to what call c creates.
NewId(c) == c.id

\* Outcomes of one HTTP exchange as the client sees it: a 2xx status ("ok"), a
\* non-2xx status whose JSON body has no `detail` ("bad"), a non-2xx status
\* whose JSON body has a `detail` text ("detail"), a transport failure, where
\* fetch rejects ("err").
Failures == {"bad", "detail", "err"}
Outcomes == {"ok"} \cup Failures

\* The effect of call c's request on the stored papers / groups when served 2xx.
ServedPapers(c) ==
    CASE c.op = "uploadPaper" /\ c.pc = "req" ->
            Append(serverPapers, [paper_id |-> NewId(c)])
      [] c.op = "deletePaper" /\ c.pc = "req" ->
            Without(serverPapers, {[paper_id |-> c.paperId]})
      [] OTHER -> serverPapers

ServedGroups(c) ==
    CASE c.op = "createGroup" /\ c.pc = "req" ->
            Append(serverGroups,
                   [group_id |-> NewId(c), name |-> c.name, paper_ids |-> c.paperIds])
      [] c.op = "deleteGroup" /\ c.pc = "req" ->
            Without(serverGroups, {g \in Range(serverGroups) : g.group_id = c.groupId})
      [] c.op = "addPapersToGroup" /\ c.pc = "req" ->
            [i \in 1..Len(serverGroups) |->
                IF serverGroups[i].group_id = c.groupId
                THEN [serverGroups[i] EXCEPT
                        !.paper_ids = @ \o Without(c.paperIds, Range(@))]
                ELSE serverGroups[i]]
      [] OTHER -> serverGroups

\* Which list a GET of call c returns: the re-fetch of a mutation, or a plain fetch.
ListsPapers(c) ==
    \/ c.op = "fetchPapers" /\ c.pc = "req"
    \/ c.op \in {"uploadPaper", "deletePaper"} /\ c.pc = "freq"
ListsGroups(c) ==
    \/ c.op = "fetchGroups" /\ c.pc = "req"
    \/ c.op \in {"createGroup", "deleteGroup", "addPapersToGroup"} /\ c.pc = "freq"

\* The JSON payload of a 2xx response to call c's request.
Payload(c) ==
    CASE ListsPapers(c) -> serverPapers
      [] ListsGroups(c) -> serverGroups
      [] OTHER -> <<>>

\* The backend serves the request of call c with a 2xx status: the request
\* takes effect and the response, with the list as it is now, starts its way
\* back.  (A request that fails has no effect on the backend; the client sees
\* the failure when it arrives, see Arrives.)
Serve(c) ==
    /\ c.pc \in {"req", "freq"}
    /\ c.op # "askQuestion"
    /\ calls' = (calls \ {c}) \cup
          {[c EXCEPT !.pc = IF c.pc = "req" THEN "resp" ELSE "fresp",
                     !.data = Payload(c)]}
    /\ serverPapers' = ServedPapers(c)
    /\ serverGroups' = ServedGroups(c)
    /\ last' = Idle
    /\ UNCHANGED <<home, sidebar, ncalls, limit, now, input, modal>>

\* The outcome res of the request that call c awaits at `stage` ("req": its
\* first fetch, "freq": the fetch of its list re-fetch) arrives at the client:
\* a 2xx response that the backend has served, or a failure.
Arrives(c, stage, res) ==
    \/ res = "ok" /\ c.pc = (IF stage = "req" THEN "resp" ELSE "fresp")
    \/ res \in Failures /\ c.pc = stage

\* --------------------------------------------------- Home: starting a call

CanCall == ncalls < MountCalls + limit

\* A new activation of async function op with the given arguments and closure.
\* `quiet` records, for the claims, that the call started with both lists equal
\* to the backend's and that no other call has been in flight together with it.
NewCall(op, extra) ==
    [id |-> ncalls + 1, op |-> op, pc |-> "req", data |-> <<>>,
     quiet |-> calls = {} /\ papers = serverPapers /\ groups = serverGroups] @@ extra

\* The activations in flight once call c has started.
Started(c) == {[d EXCEPT !.quiet = FALSE] : d \in calls} \cup {c}

\* ------------------------------------------------------------- Home: lists

\* The value an async function returned to its caller, and what it was given.
Returned(c, fields) ==
    [kind |-> "return", op |-> c.op, id |-> c.id, quiet |-> c.quiet] @@ fields

\* The call goes on to `await fetchPapers()` / `await fetchGroups()`.
Refetch(c) == (calls \ {c}) \cup {[c EXCEPT !.pc = "freq"]}

\* fetchPapers / fetchGroups, the part after `await fetch(...)`: a 2xx status
\* replaces the list by the payload; a non-2xx status returns and an exception
\* is logged, and the list is left as it is.
FetchedPapers(c, res) == IF res = "ok" THEN c.data ELSE papers
FetchedGroups(c, res) == IF res = "ok" THEN c.data ELSE groups

fetchPapersDone(c, res) ==
    /\ c.op = "fetchPapers" /\ Arrives(c, "req", res)
    /\ papers' = FetchedPapers(c, res)
    /\ calls' = calls \ {c}
    /\ last' = Returned(c, [fetched |-> res = "ok"])
    /\ UNCHANGED <<selectedPaper, groups, selectedGroup, messages, isLoading, mode,
                   sidebar, ncalls, server, now, input, modal>>

fetchGroupsDone(c, res) ==
    /\ c.op = "fetchGroups" /\ Arrives(c, "req", res)
    /\ groups' = FetchedGroups(c, res)
    /\ calls' = calls \ {c}
    /\ last' = Returned(c, [fetched |-> res = "ok"])
    /\ UNCHANGED <<papers, selectedPaper, selectedGroup, messages, isLoading, mode,
                   sidebar, ncalls, server, now, input, modal>>

\* ------------------------------------------------------------ Home: groups

\* The `detail` of a non-2xx response's body ('' stands for a missing one), and
\* the message of the exception with which fetch rejects.
ServerDetail == "detail text of the server"
TransportError == "Failed to fetch"
Detail(res) == IF res = "detail" THEN ServerDetail ELSE ""

\* The `error.message` that the catch block of a function sees when its request
\* ended with the failure res, its non-2xx branch throwing new Error(thrown).
ErrorMessage(res, thrown) == IF res = "err" THEN TransportError ELSE thrown

\* createGroup(name, description, paperIds), up to the first await: POST /groups.
createGroup(groupName, groupDescription, paperIds) ==
    /\ calls' = Started(NewCall("createGroup",
                    [name |-> groupName, description |-> groupDescription,
                     paperIds |-> paperIds, before |-> groups]))
    /\ ncalls' = ncalls + 1

\* The message createGroup's catch block returns for the failure res:
\* `error.detail || 'Failed to create group'` is thrown on a non-2xx status.
CreateGroupError(res) == ErrorMessage(res, OrElse(Detail(res), "Failed to create group"))

\* handleSubmitFailed without setIsSubmitting(false).
handleSubmitFailed_StaysSubmitting(resultError) ==
    /\ groupError' = OrElse(resultError, "Failed to create group")
    /\ UNCHANGED isSubmitting

\* GroupModal.handleSubmit after `await onCreateGroup(...)` has returned
\* {success: false, error}: the error is shown, the form stays as it is.
handleSubmitFailed(resultError) ==
    /\ isSubmitting' = FALSE
    /\ groupError' = OrElse(resultError, "Failed to create group")

\* GroupModal.handleSubmit after `await onCreateGroup(...)` has returned
\* {success: true}: the form is reset and onClose() hides the modal.
handleSubmitSucceeded ==
    /\ isSubmitting' = FALSE
    /\ name' = EmptyText
    /\ description' = EmptyText
    /\ selectedPaperIds' = <<>>
    /\ showGroupModal' = FALSE
    /\ UNCHANGED groupError

\* createGroup after the POST: a non-2xx status or an exception returns
\* {success: false, error}; a 2xx status goes on to `await fetchGroups()`.
createGroupResp(c, res) ==
    /\ c.op = "createGroup" /\ Arrives(c, "req", res)
    /\ IF res = "ok"
       THEN /\ calls' = Refetch(c)
            /\ last' = Idle
            /\ UNCHANGED <<isSubmitting, groupError>>
       ELSE /\ calls' = calls \ {c}
            /\ last' = Returned(c, [success |-> FALSE, outcome |-> res,
                                    error |-> CreateGroupError(res)])
            /\ handleSubmitFailed(CreateGroupError(res))
    /\ UNCHANGED <<home, sidebar, ncalls, server, now, input, showGroupModal, name,
                   description, selectedPaperIds>>

\* createGroupRefetched that returns {success: true} without the list fetched.
createGroupRefetched_KeepsList(c, res) ==
    /\ c.op = "createGroup" /\ Arrives(c, "freq", res)
    /\ calls' = calls \ {c}
    /\ last' = Returned(c, [success |-> TRUE, refetched |-> res = "ok",
                            before |-> c.before, name |-> c.name,
                            paperIds |-> c.paperIds])
    /\ handleSubmitSucceeded
    /\ UNCHANGED <<home, sidebar, ncalls, server, now, input>>

\* createGroup after `await fetchGroups()`: returns {success: true} whatever
\* fetchGroups did.
createGroupRefetched(c, res) ==
    /\ c.op = "createGroup" /\ Arrives(c, "freq", res)
    /\ groups' = FetchedGroups(c, res)
    /\ calls' = calls \ {c}
    /\ last' = Returned(c, [success |-> TRUE, refetched |-> res = "ok",
                            before |-> c.before, name |-> c.name,
                            paperIds |-> c.paperIds])
    /\ handleSubmitSucceeded
    /\ UNCHANGED <<papers, selectedPaper, selectedGroup, messages, isLoading, mode,
                   sidebar, ncalls, server, now, input>>

\* ------------------------------------------------------------ GroupModal

\* The "create new group" button of the sidebar: setShowGroupModal(true).  The
\* modal keeps its state while it is hidden (`if (!isOpen) return null` comes
\* after the useState calls, and the sidebar never unmounts it).
openGroupModal ==
    /\ ~showGroupModal
    /\ showGroupModal' = TRUE
    /\ last' = Idle
    /\ UNCHANGED <<home, sidebar, calls, ncalls, server, now, input, name, description,
                   selectedPaperIds, isSubmitting, groupError>>

\* The Cancel button (disabled while isSubmitting): onClose().
onClose ==
    /\ showGroupModal /\ ~isSubmitting
    /\ showGroupModal' = FALSE
    /\ last' = Idle
    /\ UNCHANGED <<home, sidebar, calls, ncalls, server, now, input, name, description,
                   selectedPaperIds, isSubmitting, groupError>>

\* The onChange handlers of the name and description fields.
setName(text) ==
    /\ showGroupModal /\ text # name
    /\ name' = text
    /\ last' = Idle
    /\ UNCHANGED <<home, sidebar, calls, ncalls, server, now, input, showGroupModal,
                   description, selectedPaperIds, isSubmitting, groupError>>

setDescription(text) ==
    /\ showGroupModal /\ text # description
    /\ description' = text
    /\ last' = Idle
    /\ UNCHANGED <<home, sidebar, calls, ncalls, server, now, input, showGroupModal, name,
                   selectedPaperIds, isSubmitting, groupError>>

\* togglePaper(paperId), from the checkbox of a listed paper.
togglePaper(paperId) ==
    /\ showGroupModal
    /\ selectedPaperIds' = IF paperId \in Range(selectedPaperIds)
                           THEN Without(selectedPaperIds, {paperId})
                           ELSE Append(selectedPaperIds, paperId)
    /\ last' = Idle
    /\ UNCHANGED <<home, sidebar, calls, ncalls, server, now, input, showGroupModal, name,
                   description, isSubmitting, groupError>>

\* What goes to onCreateGroup as the description: `description.trim() || undefined`.
DescriptionArg == IF trim(description) = "" THEN Undefined ELSE trim(description)

\* GroupModal_handleSubmit that submits whatever the name field holds.
GroupModal_handleSubmit_AnyName ==
    /\ showGroupModal /\ ~isSubmitting
    /\ CanCall
    /\ groupError' = ""
    /\ isSubmitting' = TRUE
    /\ createGroup(trim(name), DescriptionArg, selectedPaperIds)
    /\ last' = [kind |-> "call", op |-> "createGroup", id |-> ncalls + 1]
    /\ UNCHANGED <<home, sidebar, server, now, input, showGroupModal, name, description,
                   selectedPaperIds>>

\* GroupModal.handleSubmit, up to `await onCreateGroup(...)`.  The form is
\* submitted through its submit button, which is disabled while isSubmitting;
\* the name is tested by the handler itself.
GroupModal_handleSubmit ==
    /\ showGroupModal /\ ~isSubmitting
    /\ IF trim(name) = ""
       THEN /\ groupError' = "Group name is required"
            /\ last' = Ignored("GroupModal.handleSubmit")
            /\ UNCHANGED <<isSubmitting, calls, ncalls>>
       ELSE /\ CanCall
            /\ groupError' = ""
            /\ isSubmitting' = TRUE
            /\ createGroup(trim(name), DescriptionArg, selectedPaperIds)
            /\ last' = [kind |-> "call", op |-> "createGroup", id |-> ncalls + 1]
    /\ UNCHANGED <<home, sidebar, server, now, input, showGroupModal, name, description,
                   selectedPaperIds>>

\* deleteGroup(groupId), up to the first await: DELETE /groups/{id}.  The
\* activation keeps the selectedGroup of the render that created it.
deleteGroup(groupId) ==
    /\ calls' = Started(NewCall("deleteGroup",
                    [groupId |-> groupId, selectedGroup |-> selectedGroup]))
    /\ ncalls' = ncalls + 1

\* confirmDeleteGroup that calls onDeleteGroup whatever confirm() returned.
confirmDeleteGroup_Unasked(group, accepted) ==
    /\ CanCall
    /\ deleteGroup(group.group_id)
    /\ last' = [kind |-> "confirm", accepted |-> accepted, groupId |-> group.group_id]
    /\ UNCHANGED <<home, sidebar, server, now, input, modal>>

\* The click handler of a group's delete button: confirm(...) asks the user,
\* whose answer is `accepted`, and only then onDeleteGroup(group.group_id) is
\* called.  (stopPropagation keeps the click from selecting the group.)
confirmDeleteGroup(group, accepted) ==
    /\ IF accepted
       THEN /\ CanCall
            /\ deleteGroup(group.group_id)
       ELSE UNCHANGED <<calls, ncalls>>
    /\ last' = [kind |-> "confirm", accepted |-> accepted, groupId |-> group.group_id]
    /\ UNCHANGED <<home, sidebar, server, now, input, modal>>

\* deleteGroupResp that drops the group from the local list as soon as the
\* DELETE has succeeded (an optimistic update).
deleteGroupResp_Optimistic(c, res) ==
    /\ c.op = "deleteGroup" /\ Arrives(c, "req", res)
    /\ IF res = "ok"
       THEN /\ calls' = Refetch(c)
            /\ groups' = Without(groups, {g \in Range(groups) : g.group_id = c.groupId})
            /\ last' = Idle
       ELSE /\ calls' = calls \ {c}
            /\ groups' = groups
            /\ last' = Returned(c, [deleted |-> FALSE, groupId |-> c.groupId])
    /\ UNCHANGED <<papers, selectedPaper, selectedGroup, messages, isLoading, mode,
                   sidebar, ncalls, server, now, input, modal>>

\* deleteGroup after the DELETE: a non-2xx status or an exception is logged and
\* the function returns; a 2xx status goes on to `await fetchGroups()`.
deleteGroupResp(c, res) ==
    /\ c.op = "deleteGroup" /\ Arrives(c, "req", res)
    /\ IF res = "ok"
       THEN /\ calls' = Refetch(c)
            /\ last' = Idle
       ELSE /\ calls' = calls \ {c}
            /\ last' = Returned(c, [deleted |-> FALSE, groupId |-> c.groupId])
    /\ UNCHANGED <<home, sidebar, ncalls, server, now, input, modal>>

\* The test `selectedGroup?.group_id === groupId` of deleteGroup, on the
\* selectedGroup the activation holds.
ClearsGroup(c) == c.selectedGroup.group_id = c.groupId

deleteGroupRefetched(c, res) ==
    /\ c.op = "deleteGroup" /\ Arrives(c, "freq", res)
    /\ groups' = FetchedGroups(c, res)
    /\ selectedGroup' = IF ClearsGroup(c) THEN NoGroup ELSE selectedGroup
    /\ calls' = calls \ {c}
    /\ last' = Returned(c, [deleted |-> TRUE, refetched |-> res = "ok",
                            groupId |-> c.groupId])
    /\ UNCHANGED <<papers, selectedPaper, messages, isLoading, mode,
                   sidebar, ncalls, server, now, input, modal>>

\* addPapersToGroup(groupId, paperIds): POST /groups/{id}/papers.
addPapersToGroup(groupId, paperIds) ==
    /\ CanCall
    /\ calls' = Started(NewCall("addPapersToGroup",
                    [groupId |-> groupId, paperIds |-> paperIds]))
    /\ ncalls' = ncalls + 1
    /\ last' = Idle
    /\ UNCHANGED <<home, sidebar, server, now, input, modal>>

addPapersToGroupResp(c, res) ==
    /\ c.op = "addPapersToGroup" /\ Arrives(c, "req", res)
    /\ IF res = "ok"
       THEN /\ calls' = Refetch(c)
            /\ last' = Idle
       ELSE /\ calls' = calls \ {c}
            /\ last' = Returned(c, [success |-> FALSE, outcome |-> res,
                            error |-> ErrorMessage(res, "Failed to add papers to group")])
    /\ UNCHANGED <<home, sidebar, ncalls, server, now, input, modal>>

addPapersToGroupRefetched(c, res) ==
    /\ c.op = "addPapersToGroup" /\ Arrives(c, "freq", res)
    /\ groups' = FetchedGroups(c, res)
    /\ calls' = calls \ {c}
    /\ last' = Returned(c, [success |-> TRUE, refetched |-> res = "ok"])
    /\ UNCHANGED <<papers, selectedPaper, selectedGroup, messages, isLoading, mode,
                   sidebar, ncalls, server, now, input, modal>>

\* ------------------------------------------------------------ Home: papers

\* uploadPaper(file), up to the first await: setIsLoading(true), then
\* POST /upload_paper.
uploadPaper(file) ==
    /\ isLoading' = TRUE
    /\ calls' = Started(NewCall("uploadPaper", [file |-> file]))
    /\ ncalls' = ncalls + 1

\* handleFileUpload(file) of the sidebar, up to `await onUpload(file)`.
handleFileUpload(file) ==
    /\ uploadProgress' = "Processing..."
    /\ error' = NullStr
    /\ uploadPaper(file)

\* handleDrop: the first dropped file, if it is a PDF, is uploaded; anything
\* else (no file included) shows an error.
handleDrop(file) ==
    /\ IF file # Undefined /\ file = PdfType
       THEN /\ CanCall
            /\ handleFileUpload(file)
            /\ UNCHANGED timers
       ELSE /\ error' = "Please upload a PDF file"
            /\ UNCHANGED <<uploadProgress, timers, isLoading, calls, ncalls>>
    /\ last' = Idle
    /\ UNCHANGED <<papers, selectedPaper, groups, selectedGroup, messages, mode, server, now, input, modal>>

\* handleFileSelect: the first picked file is uploaded.
handleFileSelect(file) ==
    /\ file # Undefined
    /\ CanCall
    /\ handleFileUpload(file)
    /\ last' = Idle
    /\ UNCHANGED <<papers, selectedPaper, groups, selectedGroup, messages, mode, timers,
                   server, now, input, modal>>

\* The message uploadPaper's catch block returns for the failure res:
\* `error.detail || 'Upload failed'` is thrown on a non-2xx status.
UploadError(res) == ErrorMessage(res, OrElse(Detail(res), "Upload failed"))

\* uploadPaper after the POST.  A failure returns {success: false, error}
\* through the finally block, and handleFileUpload shows the error; a 2xx status
\* goes on to `await fetchPapers()`.
uploadPaperResp(c, res) ==
    /\ c.op = "uploadPaper" /\ Arrives(c, "req", res)
    /\ IF res = "ok"
       THEN /\ calls' = Refetch(c)
            /\ last' = Idle
            /\ UNCHANGED <<isLoading, uploadProgress, error>>
       ELSE /\ calls' = calls \ {c}
            /\ isLoading' = FALSE
            /\ error' = OrElse(UploadError(res), "Upload failed")
            /\ uploadProgress' = NullStr
            /\ last' = Returned(c, [success |-> FALSE, outcome |-> res,
                                    error |-> UploadError(res)])
    /\ UNCHANGED <<papers, selectedPaper, groups, selectedGroup, messages, mode, timers,
                   ncalls, server, now, input, modal>>

\* uploadPaperRefetched that shows the success status and never clears it.
uploadPaperRefetched_NoTimer(c, res) ==
    /\ c.op = "uploadPaper" /\ Arrives(c, "freq", res)
    /\ papers' = FetchedPapers(c, res)
    /\ isLoading' = FALSE
    /\ uploadProgress' = "Success!"
    /\ calls' = calls \ {c}
    /\ last' = Returned(c, [success |-> TRUE, refetched |-> res = "ok"])
    /\ UNCHANGED <<selectedPaper, groups, selectedGroup, messages, mode, error, timers,
                   ncalls, server, now, input, modal>>

\* uploadPaper after `await fetchPapers()`: returns {success: true} through the
\* finally block; handleFileUpload shows the success status (a check mark and
\* 'Success!') and starts the timer that clears it.
uploadPaperRefetched(c, res) ==
    /\ c.op = "uploadPaper" /\ Arrives(c, "freq", res)
    /\ papers' = FetchedPapers(c, res)
    /\ isLoading' = FALSE
    /\ uploadProgress' = "Success!"
    /\ timers' = timers + 1
    /\ calls' = calls \ {c}
    /\ last' = Returned(c, [success |-> TRUE, refetched |-> res = "ok"])
    /\ UNCHANGED <<selectedPaper, groups, selectedGroup, messages, mode, error,
                   ncalls, server, now, input, modal>>

\* The callback of setTimeout(() => setUploadProgress(null), 2000).
TimerFires ==
    /\ timers > 0
    /\ timers' = timers - 1
    /\ uploadProgress' = NullStr
    /\ last' = Idle
    /\ UNCHANGED <<home, error, calls, ncalls, server, now, input, modal>>

\* deletePaper(paperId), up to the first await: DELETE /delete_paper/{id}.  The
\* activation keeps the selectedPaper of the render that created it.
deletePaper(paperId) ==
    /\ CanCall
    /\ calls' = Started(NewCall("deletePaper",
                    [paperId |-> paperId, selectedPaper |-> selectedPaper]))
    /\ ncalls' = ncalls + 1
    /\ last' = Idle
    /\ UNCHANGED <<home, sidebar, server, now, input, modal>>

\* deletePaperResp whose failure branch drops the selection of the paper.
deletePaperResp_Deselects(c, res) ==
    /\ c.op = "deletePaper" /\ Arrives(c, "req", res)
    /\ IF res = "ok"
       THEN /\ calls' = Refetch(c)
            /\ last' = Idle
            /\ UNCHANGED selectedPaper
       ELSE /\ calls' = calls \ {c}
            /\ last' = Returned(c, [deleted |-> FALSE, paperId |-> c.paperId])
            /\ selectedPaper' = IF selectedPaper.paper_id = c.paperId THEN NoPaper
                                ELSE selectedPaper
    /\ UNCHANGED <<papers, groups, selectedGroup, messages, isLoading, mode, sidebar,
                   ncalls, server, now, input, modal>>

\* deletePaper after the DELETE: a non-2xx status or an exception is logged and
\* the function returns; a 2xx status goes on to `await fetchPapers()`.
deletePaperResp(c, res) ==
    /\ c.op = "deletePaper" /\ Arrives(c, "req", res)
    /\ IF res = "ok"
       THEN /\ calls' = Refetch(c)
            /\ last' = Idle
       ELSE /\ calls' = calls \ {c}
            /\ last' = Returned(c, [deleted |-> FALSE, paperId |-> c.paperId])
    /\ UNCHANGED <<home, sidebar, ncalls, server, now, input, modal>>

\* The test `selectedPaper?.paper_id === paperId` of deletePaper, on the
\* selectedPaper the activation holds.
ClearsPaper(c) == c.selectedPaper.paper_id = c.paperId

deletePaperRefetched(c, res) ==
    /\ c.op = "deletePaper" /\ Arrives(c, "freq", res)
    /\ papers' = FetchedPapers(c, res)
    /\ selectedPaper' = IF ClearsPaper(c) THEN NoPaper ELSE selectedPaper
    /\ calls' = calls \ {c}
    /\ last' = Returned(c, [deleted |-> TRUE, refetched |-> res = "ok",
                            paperId |-> c.paperId])
    /\ UNCHANGED <<groups, selectedGroup, messages, isLoading, mode,
                   sidebar, ncalls, server, now, input, modal>>

\* -------------------------------------------------------------- Home: chat

\* AskBody without the group: group_id is always null.
AskBody_NoGroup(question) ==
    [question |-> question,
     paper_id |-> selectedPaper.paper_id,
     group_id |-> Null,
     mode     |-> mode,
     top_k    |-> TopK]

\* AskBody that also sends the paper-id list the function computes.
AskBody_WithPaperIds(question) ==
    [question |-> question,
     paper_id |-> selectedPaper.paper_id,
     group_id |-> selectedGroup.group_id,
     paper_ids |-> selectedGroup.paper_ids,
     mode     |-> mode,
     top_k    |-> TopK]

\* The JSON body of POST /ask_question, from the selectedPaper, selectedGroup
\* and mode of the render that called askQuestion.  `selectedPaper?.paper_id ||
\* null` is null when nothing is selected (NoPaper.paper_id is Null); the local
\* paper_ids the function computes from selectedGroup is not put in the body.
AskBody(question) ==
    [question |-> question,
     paper_id |-> selectedPaper.paper_id,
     group_id |-> selectedGroup.group_id,
     mode     |-> mode,
     top_k    |-> TopK]

\* A Message; `by` is the activation of askQuestion that appended it.
\* `id: Date.now().toString()` of the user message and
\* `id: (Date.now() + 1).toString()` of the assistant and the apology message;
\* `timestamp: new Date()` of both.
UserMessage(question, by) ==
    [id |-> ToString(now), role |-> "user", content |-> question, timestamp |-> now,
     by |-> by]
AssistantMessage(answer, by) ==
    [id |-> ToString(now + 1), role |-> "assistant", content |-> answer,
     timestamp |-> now, by |-> by]

\* The answer text of a 2xx response to the question.
Answer(question) == "answer"

\* askQuestion(question), up to the first await: the user message is appended,
\* the loading flag set and POST /ask_question sent.
askQuestion(question) ==
    /\ messages' = Append(messages, UserMessage(question, ncalls + 1))
    /\ isLoading' = TRUE
    /\ calls' = Started(NewCall("askQuestion",
                    [question |-> question, body |-> AskBody(question)]))
    /\ ncalls' = ncalls + 1
    /\ last' = [kind |-> "call", op |-> "askQuestion", id |-> ncalls + 1,
                body |-> AskBody(question)]

\* The onChange handler of the chat input: setInput(e.target.value).
setInput(text) ==
    /\ text # input
    /\ input' = text
    /\ last' = Idle
    /\ UNCHANGED <<home, sidebar, calls, ncalls, server, now, modal>>

\* handleSubmit that does not test isLoading.
handleSubmit_WhileLoading ==
    /\ IF trim(input) # ""
       THEN /\ CanCall
            /\ askQuestion(trim(input))
            /\ input' = EmptyText
       ELSE /\ last' = Ignored("handleSubmit")
            /\ UNCHANGED <<messages, isLoading, calls, ncalls, input>>
    /\ UNCHANGED <<papers, selectedPaper, groups, selectedGroup, mode, sidebar, server, now,
                   modal>>

\* ChatInterface.handleSubmit: the trimmed input, if it is not empty and nothing
\* is loading, goes to onSendMessage and the input is cleared; otherwise nothing
\* is done.
handleSubmit ==
    /\ IF trim(input) # "" /\ ~isLoading
       THEN /\ CanCall
            /\ askQuestion(trim(input))
            /\ input' = EmptyText
       ELSE /\ last' = Ignored("handleSubmit")
            /\ UNCHANGED <<messages, isLoading, calls, ncalls, input>>
    /\ UNCHANGED <<papers, selectedPaper, groups, selectedGroup, mode, sidebar, server, now,
                   modal>>

\* The message askQuestion appends when the request has ended with res.
ReplyMessage(c, res) ==
    IF res = "ok" THEN AssistantMessage(Answer(c.question), c.id)
    ELSE AssistantMessage(Apology, c.id)

\* askQuestionDone whose catch block appends nothing.
askQuestionDone_SilentFailure(c, res) ==
    /\ c.op = "askQuestion" /\ c.pc = "req"
    /\ messages' = IF res = "ok" THEN Append(messages, ReplyMessage(c, res)) ELSE messages
    /\ isLoading' = FALSE
    /\ calls' = calls \ {c}
    /\ last' = Returned(c, [ok |-> res = "ok", question |-> c.question])
    /\ UNCHANGED <<papers, selectedPaper, groups, selectedGroup, mode, sidebar, ncalls,
                   server, now, input, modal>>

\* askQuestionDone that appends to the `messages` of the render that called
\* askQuestion (setMessages([...messages, m])) instead of to the current one.
askQuestionDone_StaleAppend(c, res) ==
    /\ c.op = "askQuestion" /\ c.pc = "req"
    /\ LET mine == CHOOSE i \in 1..Len(messages) : messages[i].by = c.id
       IN messages' = Append(SubSeq(messages, 1, mine - 1), ReplyMessage(c, res))
    /\ isLoading' = FALSE
    /\ calls' = calls \ {c}
    /\ last' = Returned(c, [ok |-> res = "ok", question |-> c.question])
    /\ UNCHANGED <<papers, selectedPaper, groups, selectedGroup, mode, sidebar, ncalls,
                   server, now, input, modal>>

\* askQuestionDone that clears the loading flag at the end of the try block
\* instead of in a finally block.
askQuestionDone_NoFinally(c, res) ==
    /\ c.op = "askQuestion" /\ c.pc = "req"
    /\ messages' = Append(messages, ReplyMessage(c, res))
    /\ isLoading' = IF res = "ok" THEN FALSE ELSE isLoading
    /\ calls' = calls \ {c}
    /\ last' = Returned(c, [ok |-> res = "ok", question |-> c.question])
    /\ UNCHANGED <<papers, selectedPaper, groups, selectedGroup, mode, sidebar, ncalls,
                   server, now, input, modal>>

\* askQuestion after the POST: the assistant message on a 2xx status, the
\* apology on a non-2xx status or an exception; the finally block clears the
\* loading flag.
askQuestionDone(c, res) ==
    /\ c.op = "askQuestion" /\ c.pc = "req"
    /\ messages' = Append(messages, ReplyMessage(c, res))
    /\ isLoading' = FALSE
    /\ calls' = calls \ {c}
    /\ last' = Returned(c, [ok |-> res = "ok", question |-> c.question])
    /\ UNCHANGED <<papers, selectedPaper, groups, selectedGroup, mode, sidebar, ncalls,
                   server, now, input, modal>>

\* --------------------------------------------------------- Home: selection

onSelectPaper(paper) ==
    /\ selectedPaper' = paper
    /\ selectedGroup' = NoGroup
    /\ last' = Idle
    /\ UNCHANGED <<papers, groups, messages, isLoading, mode, sidebar, calls, ncalls,
                   server, now, input, modal>>

\* onSelectGroup without setSelectedPaper(null).
onSelectGroup_KeepsPaper(group) ==
    /\ selectedGroup' = group
    /\ last' = Idle
    /\ UNCHANGED <<papers, selectedPaper, groups, messages, isLoading, mode, sidebar,
                   calls, ncalls, server, now, input, modal>>

onSelectGroup(group) ==
    /\ selectedGroup' = group
    /\ selectedPaper' = NoPaper
    /\ last' = Idle
    /\ UNCHANGED <<papers, groups, messages, isLoading, mode, sidebar, calls, ncalls,
                   server, now, input, modal>>

setMode(m) ==
    /\ m # mode
    /\ mode' = m
    /\ last' = Idle
    /\ UNCHANGED <<papers, selectedPaper, groups, selectedGroup, messages, isLoading,
                   sidebar, calls, ncalls, server, now, input, modal>>

\* ------------------------------------------------------------------- spec

\* The page as constructed: the state of the useState calls, and the mount
\* effect's fetchPapers() and fetchGroups() waiting for their responses.
Mounted ==
    /\ papers = <<>>
    /\ selectedPaper = NoPaper
    /\ groups = <<>>
    /\ selectedGroup = NoGroup
    /\ messages = <<>>
    /\ isLoading = FALSE
    /\ mode = "academic"
    /\ uploadProgress = NullStr
    /\ error = NullStr
    /\ timers = 0
    /\ now = 0
    /\ showGroupModal = FALSE
    /\ input = EmptyText
    /\ name = EmptyText
    /\ description = EmptyText
    /\ selectedPaperIds = <<>>
    /\ isSubmitting = FALSE
    /\ groupError = ""
    /\ ncalls = MountCalls
    /\ calls = {[id |-> 1, op |-> "fetchPapers", pc |-> "req", data |-> <<>>,
                 quiet |-> FALSE],
                [id |-> 2, op |-> "fetchGroups", pc |-> "req", data |-> <<>>,
                 quiet |-> FALSE]}
    /\ serverPapers = InitServerPapers
    /\ serverGroups = InitServerGroups
    /\ last = Idle

\* The page once both fetches of the mount effect have returned the lists, the
\* user having done nothing yet (a state Mounted leads to by Serve,
\* fetchPapersDone and fetchGroupsDone).
Loaded ==
    /\ papers = InitServerPapers
    /\ selectedPaper = NoPaper
    /\ groups = InitServerGroups
    /\ selectedGroup = NoGroup
    /\ messages = <<>>
    /\ isLoading = FALSE
    /\ mode = "academic"
    /\ uploadProgress = NullStr
    /\ error = NullStr
    /\ timers = 0
    /\ now = 0
    /\ showGroupModal = FALSE
    /\ input = EmptyText
    /\ name = EmptyText
    /\ description = EmptyText
    /\ selectedPaperIds = <<>>
    /\ isSubmitting = FALSE
    /\ groupError = ""
    /\ ncalls = MountCalls
    /\ calls = {}
    /\ serverPapers = InitServerPapers
    /\ serverGroups = InitServerGroups
    /\ last = Idle

Init == Mounted /\ limit = MaxCalls

\* The backend and the two fetches of the mount effect.
Loading ==
    \/ \E c \in calls : Serve(c)
    \/ \E c \in calls, res \in Outcomes : fetchPapersDone(c, res)
    \/ \E c \in calls, res \in Outcomes : fetchGroupsDone(c, res)

Selecting ==
    \/ \E p \in Range(papers) \cup {NoPaper} : onSelectPaper(p)
    \/ \E g \in Range(groups) : onSelectGroup(g)

\* The group form filled in and submitted, the user typing a name as it is.
CreatingGroup ==
    \/ openGroupModal
    \/ \E t \in Plain(Names) : setName(t)
    \/ \E p \in Range(papers) : togglePaper(p.paper_id)
    \/ GroupModal_handleSubmit

\* The other things a user does with the group form: cancelling it, typing a
\* description, white space, or erasing a field.
EditingGroup ==
    \/ onClose
    \/ \E t \in (Typed(Names) \ Plain(Names)) \cup {EmptyText} : setName(t)
    \/ \E t \in Typed(Descriptions) \cup {EmptyText} : setDescription(t)

GroupCalls ==
    \/ \E c \in calls, res \in Outcomes : createGroupResp(c, res)
    \/ \E c \in calls, res \in Outcomes : createGroupRefetched(c, res)
    \/ \E g \in Range(groups) :
          PaperIdsOf(papers) # <<>> /\ addPapersToGroup(g.group_id, PaperIdsOf(papers))
    \/ \E c \in calls, res \in Outcomes : addPapersToGroupResp(c, res)
    \/ \E c \in calls, res \in Outcomes : addPapersToGroupRefetched(c, res)

Deleting ==
    \/ \E g \in Range(groups), accepted \in BOOLEAN : confirmDeleteGroup(g, accepted)
    \/ \E c \in calls, res \in Outcomes : deleteGroupResp(c, res)
    \/ \E c \in calls, res \in Outcomes : deleteGroupRefetched(c, res)
    \/ \E p \in Range(papers) : deletePaper(p.paper_id)
    \/ \E c \in calls, res \in Outcomes : deletePaperResp(c, res)
    \/ \E c \in calls, res \in Outcomes : deletePaperRefetched(c, res)

Uploading ==
    \/ \E f \in FileTypes \cup {Undefined} : handleDrop(f)
    \/ \E f \in FileTypes : handleFileSelect(f)
    \/ \E c \in calls, res \in Outcomes : uploadPaperResp(c, res)
    \/ \E c \in calls, res \in Outcomes : uploadPaperRefetched(c, res)
    \/ TimerFires

\* The chat form, the user typing a question as it is.
Asking ==
    \/ \E t \in Plain(Questions) : setInput(t)
    \/ handleSubmit
    \/ \E c \in calls, res \in Outcomes : askQuestionDone(c, res)

\* The user typing white space into the chat input, or erasing it.
EditingInput ==
    \E t \in (Typed(Questions) \ Plain(Questions)) \cup {EmptyText} : setInput(t)

Next ==
    \/ Loading \/ Selecting \/ CreatingGroup \/ GroupCalls \/ Deleting \/ Uploading
    \/ Asking
    \/ \E m \in Modes : setMode(m)

Spec == Init /\ [][Next]_vars

\* The page with only the chat form and the upload zone in use, the user
\* uploading PDF files.
UploadingPdf ==
    \/ handleDrop(PdfType)
    \/ handleFileSelect(PdfType)
    \/ \E c \in calls, res \in Outcomes : uploadPaperResp(c, res)
    \/ \E c \in calls, res \in Outcomes : uploadPaperRefetched(c, res)
    \/ TimerFires

InitChat == Loaded /\ limit = MaxChatCalls
NextChat == (\E c \in calls : Serve(c)) \/ UploadingPdf \/ Asking
SpecChat == InitChat /\ [][NextChat]_vars

\* Every question's request ends: its response or its failure arrives.
LiveChat == SpecChat /\ WF_vars(\E c \in calls, res \in Outcomes : askQuestionDone(c, res))

\* The chat form as above, the user also typing white space into the input
\* and erasing it.
InitInput == Loaded /\ limit = MaxInputCalls
NextInput == NextChat \/ EditingInput
SpecInput == InitInput /\ [][NextInput]_vars

\* The page with only the upload zone in use, the user dropping and picking
\* files of any type.
InitUpload == Loaded /\ limit = MaxUploadCalls
NextUpload == (\E c \in calls : Serve(c)) \/ Uploading
SpecUpload == InitUpload /\ [][NextUpload]_vars

\* A millisecond passes.
Tick ==
    /\ now < MaxNow
    /\ now' = now + 1
    /\ UNCHANGED <<home, sidebar, calls, ncalls, server, input, modal, last>>

\* The page with only the chat form in use, and time passing.
InitClock == Loaded /\ limit = MaxClockCalls
NextClock == Asking \/ Tick
SpecClock == InitClock /\ [][NextClock]_vars

\* The page with only what reads or writes the focus in use: the selection of
\* a paper or a group, the deletes, the chat form and the mode buttons.
InitFocus == Loaded /\ limit = MaxFocusCalls
NextFocus ==
    \/ \E c \in calls : Serve(c)
    \/ Selecting \/ Deleting \/ Asking
    \/ \E m \in Modes : setMode(m)
SpecFocus == InitFocus /\ [][NextFocus]_vars

\* The group form filled in and submitted, the user ticking no other paper
\* than the first one listed.
CreatingGroupOfFirst ==
    \/ openGroupModal
    \/ \E t \in Plain(Names) : setName(t)
    \/ papers # <<>> /\ togglePaper(papers[1].paper_id)
    \/ GroupModal_handleSubmit

\* The page with only the group list and the paper list in use, the user
\* uploading PDF files.
InitLists == Loaded /\ limit = MaxListCalls
NextLists ==
    \/ \E c \in calls : Serve(c)
    \/ CreatingGroupOfFirst \/ GroupCalls \/ Deleting \/ UploadingPdf
SpecLists == InitLists /\ [][NextLists]_vars

\* The page with only the group form in use.
InitForm == Loaded /\ limit = MaxFormCalls
NextForm ==
    \/ \E c \in calls : Serve(c)
    \/ CreatingGroup \/ EditingGroup
    \/ \E c \in calls, res \in Outcomes : createGroupResp(c, res)
    \/ \E c \in calls, res \in Outcomes : createGroupRefetched(c, res)
SpecForm == InitForm /\ [][NextForm]_vars

\* The page with the group form and the delete buttons of the paper list in
\* use.
InitFormPapers == Loaded /\ limit = MaxFormPaperCalls
NextFormPapers ==
    \/ NextForm
    \/ \E p \in Range(papers) : deletePaper(p.paper_id)
    \/ \E c \in calls, res \in Outcomes : deletePaperResp(c, res)
    \/ \E c \in calls, res \in Outcomes : deletePaperRefetched(c, res)
SpecFormPapers == InitFormPapers /\ [][NextFormPapers]_vars

\* ----------------------------------------------------------------- claims

AskCalled == last.kind = "call" /\ last.op = "askQuestion"
ReturnedFrom(op) == last.kind = "return" /\ last.op = op

\* The positions of the transcript entries that activation k appended.
EntriesBy(k) == {i \in 1..Len(messages) : messages[i].by = k}

\* C1: in every reachable state of the root view at most one of selectedPaper
\* and selectedGroup is non-null, whatever has been selected, deleted, uploaded,
\* fetched or asked.
C1_AtMostOneSelected == selectedPaper = NoPaper \/ selectedGroup = NoGroup

\* C1's case: a group is selected and a paper delete has just returned.
C1_Witness == selectedGroup # NoGroup /\ ReturnedFrom("deletePaper") /\ last.deleted

\* C2: every call of askQuestion that has returned has appended exactly two
\* entries, first the user message with the question, then one assistant message
\* (the answer on a 2xx status, the apology otherwise); a call still waiting has
\* appended its user message only, and no other call appends anything.
C2_TwoEntriesPerQuestion ==
    /\ \A k \in 1..ncalls :
         LET mine == EntriesBy(k)
             waiting == \E c \in calls : c.id = k /\ c.op = "askQuestion"
         IN IF waiting
            THEN /\ Cardinality(mine) = 1
                 /\ \A i \in mine : messages[i].role = "user"
            ELSE /\ Cardinality(mine) \in {0, 2}
                 /\ \A i, j \in mine :
                      i < j => /\ messages[i].role = "user"
                               /\ messages[j].role = "assistant"
    /\ ReturnedFrom("askQuestion") =>
         /\ Cardinality(EntriesBy(last.id)) = 2
         /\ \E i \in EntriesBy(last.id) :
              /\ messages[i].role = "user"
              /\ messages[i].content = last.question
         /\ LET reply == messages[Len(messages)]
            IN /\ reply.role = "assistant"
               /\ reply.content = (IF last.ok THEN Answer(last.question) ELSE Apology)
               /\ reply.by = last.id

\* C2's case: a question whose request failed has returned.
C2_Witness == ReturnedFrom("askQuestion") /\ ~last.ok /\ Len(messages) >= 2

\* C3: the transcript is append-only: in every step the messages list before
\* the step is a prefix of the list after it.
C3_AppendOnly == [][IsPrefix(messages, messages')]_vars

\* C3's case: two questions have been asked and answered, the second sent
\* while the first was waiting.
C3_Witness ==
    /\ Len(messages) = 4
    /\ messages[1].by = messages[3].by
    /\ messages[2].by = messages[4].by

\* C4: once askQuestion has been called, the loading flag is eventually
\* cleared, whatever the outcome, provided the request ends.
C4_LoadingCleared ==
    (\E c \in calls : c.op = "askQuestion") ~> ~isLoading

\* C4's case: a failed question has returned and the flag is clear.
C4_Witness == ReturnedFrom("askQuestion") /\ ~last.ok /\ ~isLoading /\ calls = {}

\* C5: no upload request is issued for a file whose MIME type is not
\* application/pdf, whether it was dropped or picked.
C5_OnlyPdfUploaded == \A c \in calls : c.op = "uploadPaper" => c.file = PdfType

\* C6: when a successful deletePaper(P) / deleteGroup(G) has returned,
\* selectedPaper is not P / selectedGroup is not G.
C6_DeletedNotSelected ==
    /\ ReturnedFrom("deletePaper") /\ last.deleted => selectedPaper.paper_id # last.paperId
    /\ ReturnedFrom("deleteGroup") /\ last.deleted => selectedGroup.group_id # last.groupId

\* C7: the body of the ask-question request reflects the focus at submit time:
\* with a group selected group_id is its id and paper_id is null, with a paper
\* selected paper_id is its id and group_id is null, with nothing selected both
\* are null; top_k is 5.
C7_BodyReflectsFocus ==
    AskCalled =>
        /\ last.body.top_k = 5
        /\ selectedGroup # NoGroup =>
              last.body.group_id = selectedGroup.group_id /\ last.body.paper_id = Null
        /\ selectedPaper # NoPaper =>
              last.body.paper_id = selectedPaper.paper_id /\ last.body.group_id = Null
        /\ selectedGroup = NoGroup /\ selectedPaper = NoPaper =>
              last.body.paper_id = Null /\ last.body.group_id = Null

\* C7's case: a question submitted with a group in focus.
C7_Witness == AskCalled /\ selectedGroup # NoGroup /\ selectedGroup.paper_ids # <<>>

\* C8, as claimed: with a group in focus the request carries that group's
\* paper-id list.
C8_CarriesPaperIds ==
    AskCalled /\ selectedGroup # NoGroup =>
        /\ "paper_ids" \in DOMAIN last.body
        /\ last.body.paper_ids = selectedGroup.paper_ids

\* C8, amended: the request carries exactly the question text, the focused
\* paper id (or null), the focused group's id (or null), the active mode and
\* top-k; the focused group's paper-id list is not part of it.
C8_BodyFields ==
    AskCalled =>
        /\ DOMAIN last.body = {"question", "paper_id", "group_id", "mode", "top_k"}
        /\ last.body.question = messages[Len(messages)].content
        /\ last.body.mode = mode
        /\ last.body.group_id = selectedGroup.group_id
        /\ last.body.paper_id = selectedPaper.paper_id

\* C8's case: a question submitted in another mode than the initial one with
\* a group in focus.
C8_Witness == AskCalled /\ selectedGroup # NoGroup /\ mode = "eli5"

\* The mutations of each list, and whether the one that has just returned
\* succeeded (its own request got a 2xx status).
GroupMutations == {"createGroup", "deleteGroup", "addPapersToGroup"}
PaperMutations == {"uploadPaper", "deletePaper"}
Succeeded ==
    IF last.op \in {"deleteGroup", "deletePaper"} THEN last.deleted ELSE last.success

Takes(c, payload) ==
    /\ c.pc \in {"resp", "fresp"}
    /\ \A d \in calls' : d.id # c.id \/ d.pc # c.pc
    /\ c.data = payload

Failed(e) ==
    CASE e.op \in {"fetchPapers", "fetchGroups"} -> ~e.fetched
      [] e.op \in {"deleteGroup", "deletePaper"} -> ~e.deleted
      [] e.op = "askQuestion" -> ~e.ok
      [] OTHER -> ~e.success

\* C11: the step in which fetchPapers, fetchGroups, createGroup, deleteGroup,
\* addPapersToGroup, uploadPaper or deletePaper returns after a failure of its
\* request changes none of papers, groups, selectedPaper, selectedGroup, mode
\* and messages (nor does the start of any of them); a list re-fetch that fails
\* inside a mutation leaves both lists, the mode and the transcript as they
\* were; the step in which a failed askQuestion returns changes only messages,
\* by appending one entry, and clears the loading flag.
C11_FailureKeepsState ==
    [][ /\ last'.kind = "return" /\ last'.op # "askQuestion" /\ Failed(last') =>
              UNCHANGED <<papers, groups, selectedPaper, selectedGroup, mode, messages>>
        /\ last'.kind = "return" /\ last'.op \in GroupMutations \cup PaperMutations
              /\ ~Failed(last') /\ ~last'.refetched =>
              UNCHANGED <<papers, groups, mode, messages>>
        /\ ncalls' # ncalls /\ (\E c \in calls' : c.op # "askQuestion" /\ c.id = ncalls') =>
              UNCHANGED <<papers, groups, selectedPaper, selectedGroup, mode, messages>>
        /\ last'.kind = "return" /\ last'.op = "askQuestion" /\ Failed(last') =>
              /\ UNCHANGED <<papers, groups, selectedPaper, selectedGroup, mode>>
              /\ Len(messages') = Len(messages) + 1
              /\ IsPrefix(messages, messages')
              /\ ~isLoading'
      ]_vars

\* C11's case: the delete of the selected group has failed and the group is
\* still listed and selected.
C11_Witness ==
    /\ ReturnedFrom("deleteGroup") /\ ~last.deleted
    /\ selectedGroup.group_id = last.groupId
    /\ selectedGroup \in Range(groups)

\* The functions that return a {success, error} tuple to a form.
TupleCalls == {"createGroup", "addPapersToGroup", "uploadPaper"}

\* C12: when createGroup, addPapersToGroup or uploadPaper has returned
\* {success: false, error} after a failure of its request, error is the
\* server's detail text if the response supplied one and some non-empty message
\* otherwise.
C12_ErrorIsDetail ==
    last.kind = "return" /\ last.op \in TupleCalls /\ ~last.success =>
        IF last.outcome = "detail" THEN last.error = ServerDetail ELSE last.error # ""

\* C13: while a request of create-group, delete-group, add-papers-to-group,
\* upload-paper, delete-paper or ask-question is in flight, the loading flag is
\* set.
C13_LoadingWhileInFlight ==
    \A c \in calls :
        c.op \in GroupMutations \cup PaperMutations \cup {"askQuestion"} => isLoading

\* The createGroup call that the step starts, if it starts one.
NewCreateGroup ==
    IF ncalls' = ncalls THEN {} ELSE {c \in calls' : c.op = "createGroup" /\ c.id = ncalls'}

\* C14: a submit of the group form whose name field is empty or holds white
\* space only sets the error 'Group name is required' and calls nothing; any
\* other submit calls onCreateGroup with the name without its surrounding
\* white space, the description without its surrounding white space (undefined
\* if nothing is left of it) and the toggled paper ids; so no createGroup call
\* ever has an empty name.
C14_SubmitsNonEmptyName ==
    [][ /\ last' = Ignored("GroupModal.handleSubmit") =>
              /\ name.body = ""
              /\ groupError' = "Group name is required"
              /\ calls' = calls /\ ncalls' = ncalls
        /\ \A c \in NewCreateGroup :
              /\ name.body # ""
              /\ c.name = name.body
              /\ c.description = (IF description.body = "" THEN Undefined
                                  ELSE description.body)
              /\ c.paperIds = selectedPaperIds
              /\ last' # Ignored("GroupModal.handleSubmit")
        /\ \A c \in calls' : c.op = "createGroup" => c.name # ""
      ]_vars

\* C14's case: the form was submitted with white space as the name.
C14_Witness ==
    /\ last = Ignored("GroupModal.handleSubmit")
    /\ name = Text(1, "", 0)
    /\ groupError = "Group name is required"
    /\ selectedPaperIds # <<>>

\* C15: a step starts a deleteGroup call only as the click on that group's
\* delete button with the confirmation accepted; a click with the confirmation
\* declined starts no call and changes neither the group list nor the selection.
C15_DeleteAfterConfirm ==
    [][ /\ \A c \in calls' :
              ncalls' # ncalls /\ c.id = ncalls' /\ c.op = "deleteGroup" =>
                 /\ last'.kind = "confirm" /\ last'.accepted
                 /\ last'.groupId = c.groupId
        /\ last'.kind = "confirm" /\ ~last'.accepted =>
              UNCHANGED <<groups, selectedGroup, calls, ncalls, serverGroups>>
      ]_vars

\* C15's case: the delete of the selected group was declined.
C15_Witness ==
    /\ last.kind = "confirm" /\ ~last.accepted
    /\ selectedGroup.group_id = last.groupId
    /\ selectedGroup \in Range(groups)

\* The upload call that the step starts, if it starts one.
NewUpload ==
    IF ncalls' = ncalls THEN {} ELSE {c \in calls' : c.op = "uploadPaper" /\ c.id = ncalls'}

\* C16, as claimed: when a successful upload has returned, the status is the
\* success status and no error is shown.
C16_SuccessShowsNoError ==
    ReturnedFrom("uploadPaper") /\ last.success =>
        uploadProgress = "Success!" /\ error = NullStr

\* C16, amended: the start of an upload shows 'Processing...' and clears the
\* error; the return of a successful upload shows the success status, starts a
\* timer and leaves the error as it is; whenever the success status is shown a
\* timer is pending, and a timer that fires clears the status; the return of a
\* failed upload clears the status and shows the returned error text, which is
\* not empty; and the error changes in no other way than by being cleared or by
\* a drop that is rejected.
C16_UploadStatus ==
    [][ /\ NewUpload # {} => uploadProgress' = "Processing..." /\ error' = NullStr
        /\ last'.kind = "return" /\ last'.op = "uploadPaper" /\ last'.success =>
              /\ uploadProgress' = "Success!"
              /\ timers' = timers + 1
              /\ error' = error
        /\ uploadProgress' = "Success!" => timers' > 0
        /\ timers' < timers => uploadProgress' = NullStr
        /\ last'.kind = "return" /\ last'.op = "uploadPaper" /\ ~last'.success =>
              /\ uploadProgress' = NullStr
              /\ error' = last'.error
              /\ error' \in {ServerDetail, "Upload failed", TransportError}
              /\ last'.outcome = "detail" => error' = ServerDetail
        /\ error' # error =>
              \/ error' = NullStr
              \/ error' = "Please upload a PDF file" /\ UNCHANGED <<calls, uploadProgress>>
              \/ last'.kind = "return" /\ last'.op = "uploadPaper" /\ ~last'.success
      ]_vars

\* C16's case: an upload has succeeded while the error of a rejected drop is
\* shown.
C16_Witness ==
    /\ ReturnedFrom("uploadPaper") /\ last.success
    /\ uploadProgress = "Success!" /\ timers = 1
    /\ error = "Please upload a PDF file"

\* The askQuestion call that the step starts, if it starts one.
NewAsk ==
    IF ncalls' = ncalls THEN {} ELSE {c \in calls' : c.op = "askQuestion" /\ c.id = ncalls'}

\* C17: a step sends a question only as a submit of the chat form with the
\* loading flag false and an input that is not empty once its surrounding white
\* space is removed: the question sent and shown is the input without that
\* white space, and the input is cleared; a submit that is ignored found the
\* input empty or white space only, or the loading flag set, and sends nothing
\* and leaves input, transcript and loading flag as they were.
C17_SubmitsTrimmedInput ==
    [][ /\ \A c \in NewAsk :
              /\ input.body # "" /\ ~isLoading
              /\ c.question = input.body
              /\ c.body.question = input.body
              /\ messages' = Append(messages, UserMessage(input.body, c.id))
              /\ input' = EmptyText
        /\ last' = Ignored("handleSubmit") =>
              /\ input.body = "" \/ isLoading
              /\ UNCHANGED <<input, messages, isLoading, calls, ncalls>>
      ]_vars

\* C17's case: a submit while a question is in flight was ignored.
C17_Witness ==
    /\ last = Ignored("handleSubmit")
    /\ input = Text(1, "q", 1)
    /\ isLoading
    /\ \E c \in calls : c.op = "askQuestion"

\* C18: when createGroup has returned {success: true} to the group form, the
\* name, the description and the selected paper ids are empty and the modal is
\* closed; when it has returned {success: false, error}, the modal is open, the
\* fields are what they were and the returned error is shown; and isSubmitting
\* is true exactly in the states in which a createGroup call of the form is
\* pending.
C18_FormOutcome ==
    [][ /\ last'.kind = "return" /\ last'.op = "createGroup" /\ last'.success =>
              /\ name' = EmptyText /\ description' = EmptyText
              /\ selectedPaperIds' = <<>>
              /\ ~showGroupModal'
        /\ last'.kind = "return" /\ last'.op = "createGroup" /\ ~last'.success =>
              /\ showGroupModal'
              /\ UNCHANGED <<name, description, selectedPaperIds>>
              /\ groupError' = last'.error
              /\ groupError' \in {ServerDetail, "Failed to create group", TransportError}
        /\ isSubmitting' <=> \E c \in calls' : c.op = "createGroup"
      ]_vars

\* C18's case: the creation of a group has failed with a detail text of the
\* server; the form is open with its fields as typed.
C18_Witness ==
    /\ ReturnedFrom("createGroup") /\ ~last.success
    /\ showGroupModal /\ ~isSubmitting
    /\ name = Text(1, "g", 1) /\ selectedPaperIds # <<>>
    /\ groupError = ServerDetail

\* C19: at most one askQuestion request is in flight, and the loading flag is
\* set for as long as one is.
C19_OneQuestionInFlight ==
    /\ Cardinality({c \in calls : c.op = "askQuestion"}) <= 1
    /\ \A c \in calls : c.op = "askQuestion" => isLoading

\* C20: the transcript alternates user and assistant entries, starting with a
\* user entry, and each assistant entry directly follows the user entry of the
\* question it answers.
C20_TranscriptAlternates ==
    \A i \in 1..Len(messages) :
        IF i % 2 = 1
        THEN messages[i].role = "user"
        ELSE messages[i].role = "assistant" /\ messages[i].by = messages[i - 1].by

\* The positions of two different entries of the transcript.
TwoEntries == {p \in (1..Len(messages)) \X (1..Len(messages)) : p[1] < p[2]}

\* C21: whenever the entries of the transcript were appended at pairwise
\* different readings of the clock (the clock advanced between the events), their
\* identifiers are pairwise distinct.
C21_IdsDistinct ==
    (\A p \in TwoEntries : messages[p[1]].timestamp # messages[p[2]].timestamp) =>
        \A p \in TwoEntries : messages[p[1]].id # messages[p[2]].id

\* The uploads whose POST /upload_paper has not been answered to the client.
UploadsInFlight == {c \in calls : c.op = "uploadPaper" /\ c.pc \in {"req", "resp"}}

\* C22: in every state in which an upload request is in flight, the upload
\* status reads 'Processing...'.
C22_ProcessingWhileInFlight ==
    UploadsInFlight # {} => uploadProgress = "Processing..."

\* C23: every paper id that a step submits in a create-group call is the id of
\* a paper of the papers list at that moment, and a step that opens the modal
\* shows the form empty: no name, description, selection or error.
C23_FormFreshAndIdsListed ==
    [][ /\ \A c \in NewCreateGroup :
              \A id \in Range(c.paperIds) : id \in Range(PaperIdsOf(papers))
        /\ ~showGroupModal /\ showGroupModal' =>
              /\ name' = EmptyText /\ description' = EmptyText
              /\ selectedPaperIds' = <<>> /\ groupError' = ""
      ]_vars

====
